---- MODULE Spec2Model ----
(***************************************************************************)
(* BlobStorageHandler (src/src/blob_storage.py): a wrapper around the      *)
(* Azure blob SDK.  The handler itself holds only the immutable            *)
(* ClientParamsInput; the state its methods act on is the container (one   *)
(* blob per path) and the local filesystem.  Every method is a sequence of *)
(* calls into those two; callers (threads) interleave between the calls.   *)
(*                                                                         *)
(* SDK and OS calls the methods delegate to, as azure-storage-blob and     *)
(* CPython define them:                                                    *)
(*   BlobClient.exists()          True/False, never raises for a 404       *)
(*   BlobClient.download_blob()   raises ResourceNotFoundError on a 404    *)
(*   BlobClient.delete_blob()     raises ResourceNotFoundError on a 404    *)
(*   ContainerClient.upload_blob(overwrite=True) replaces the blob         *)
(*   open(path, "wb")             creates the file, or truncates it        *)
(* upload_file only opens a local file and hands it to save_obj; the model *)
(* covers save_obj itself.                                                 *)
(***************************************************************************)
EXTENDS Naturals, FiniteSets

\* ---- bounds ----
MaxCalls == 3

\* Two callers share the container and the local filesystem.
Callers == {1, 2}
Paths == {"p1", "p2"}
LocalPaths == {"l1", "l2"}
Data == {"a", "b"}

\* ---- values ----
Absent == "ABSENT"
Empty == ""
NoArg == "-"
Content == Data \cup {Empty}

NoExc == "none"
ResourceExistsError == "ResourceExistsError"
ResourceNotFoundError == "ResourceNotFoundError"
ValueError == "ValueError"

\* The error kind save_obj uses for "the destination blob already exists".
AlreadyExists == ResourceExistsError

VARIABLES
  store,       \* the container: path -> content of the blob, or Absent
  files,       \* the local filesystem: local path -> content, or Absent
  pc,          \* each caller's position inside the method it runs
  op,          \* the method each caller runs
  path,        \* the blob path argument (file_path / from_file_path / to_file_path)
  lpath,       \* the local path argument of download_file (to_file_path)
  data,        \* file_obj of save_obj
  ow,          \* the overwrite argument
  buf,         \* what download_blob().readall() returned inside download_file
  exc,         \* the exception the call raised, NoExc if none
  ret,         \* the value the call returned
  calls,       \* number of calls made so far (bounded by MaxCalls)
  disturbed,   \* history: another caller wrote or deleted this caller's path since its delete_blob
  downloaded,  \* history: local paths at which some download_file returned True
  afterOk,     \* history: the call was made when its local path was in downloaded
  opened,      \* history: what this call's open(to_file_path, "wb") did to the file
  last         \* history: per path, the last upload_blob / delete_blob applied to it

vars == <<store, files, pc, op, path, lpath, data, ow, buf, exc, ret, calls,
          disturbed, downloaded, afterOk, opened, last>>

NoWrite == [kind |-> "none", d |-> NoArg, ow |-> FALSE, prev |-> NoArg]

\* BlobClient.exists() as blob_exists calls it.
blob_exists(p) == store[p] # Absent

\* os.path.isfile(to_file_path)
isfile(l) == files[l] # Absent

Init ==
  /\ store \in [Paths -> {Absent, "a"}]
  /\ files = [l \in LocalPaths |-> Absent]
  /\ pc = [q \in Callers |-> "idle"]
  /\ op = [q \in Callers |-> NoArg]
  /\ path = [q \in Callers |-> NoArg]
  /\ lpath = [q \in Callers |-> NoArg]
  /\ data = [q \in Callers |-> NoArg]
  /\ ow = [q \in Callers |-> FALSE]
  /\ buf = [q \in Callers |-> NoArg]
  /\ exc = [q \in Callers |-> NoExc]
  /\ ret = [q \in Callers |-> NoArg]
  /\ calls = 0
  /\ disturbed = [q \in Callers |-> FALSE]
  /\ downloaded = {}
  /\ afterOk = [q \in Callers |-> FALSE]
  /\ opened = [q \in Callers |-> "no"]
  /\ last = [p \in Paths |-> NoWrite]

\* ---- a call ends: by returning r, or by raising e ----
Return(q, r) ==
  /\ pc' = [pc EXCEPT ![q] = "done"]
  /\ ret' = [ret EXCEPT ![q] = r]
  /\ exc' = exc

Raise(q, e) ==
  /\ pc' = [pc EXCEPT ![q] = "done"]
  /\ exc' = [exc EXCEPT ![q] = e]
  /\ ret' = ret

Goto(q, label) ==
  /\ pc' = [pc EXCEPT ![q] = label]
  /\ UNCHANGED <<exc, ret>>

\* History: caller q changed the blob at p; every other caller that has run
\* delete_blob on p (and not started another call since) is disturbed.
Disturb(q, p) ==
  disturbed' = [r \in Callers |->
                  IF r # q /\ op[r] = "delete_obj" /\ path[r] = p
                     /\ pc[r] \in {"del_check", "done"}
                  THEN TRUE ELSE disturbed[r]]

\* ---- a caller invokes a method: the frame gets the arguments ----
Frame(q, o, p, l, d, w) ==
  /\ pc[q] \in {"idle", "done"}
  /\ calls < MaxCalls
  \* callers are interchangeable: caller 2 is first used after caller 1
  /\ \A r \in Callers : r < q => pc[r] # "idle"
  /\ calls' = calls + 1
  /\ op' = [op EXCEPT ![q] = o]
  /\ path' = [path EXCEPT ![q] = p]
  /\ lpath' = [lpath EXCEPT ![q] = l]
  /\ data' = [data EXCEPT ![q] = d]
  /\ ow' = [ow EXCEPT ![q] = w]
  /\ buf' = [buf EXCEPT ![q] = NoArg]
  /\ exc' = [exc EXCEPT ![q] = NoExc]
  /\ ret' = [ret EXCEPT ![q] = NoArg]
  /\ disturbed' = [disturbed EXCEPT ![q] = FALSE]
  /\ afterOk' = [afterOk EXCEPT ![q] = (l \in downloaded)]
  /\ opened' = [opened EXCEPT ![q] = "no"]
  /\ pc' = [pc EXCEPT ![q] =
              CASE o = "blob_exists" -> "exists"
                [] o = "read_obj" -> "read"
                [] o = "download_file" -> "dl_exists"
                [] o = "save_obj" -> "save_check"
                [] o = "delete_obj" -> "del_blob"]
  /\ UNCHANGED <<store, files, downloaded, last>>

Invoke(q) ==
  \E p \in Paths :
    \/ Frame(q, "blob_exists", p, NoArg, NoArg, FALSE)
    \/ Frame(q, "read_obj", p, NoArg, NoArg, FALSE)
    \/ \E l \in LocalPaths : Frame(q, "download_file", p, l, NoArg, FALSE)
    \/ \E d \in Data, w \in BOOLEAN : Frame(q, "save_obj", p, NoArg, d, w)
    \/ Frame(q, "delete_obj", p, NoArg, NoArg, FALSE)

\* ---- blob_exists ----
BlobExists(q) ==
  /\ pc[q] = "exists"
  /\ Return(q, IF blob_exists(path[q]) THEN "True" ELSE "False")
  /\ UNCHANGED <<store, files, op, path, lpath, data, ow, buf, calls,
                 disturbed, downloaded, afterOk, opened, last>>

\* Variant of ReadObj that does what its docstring says: an empty string
\* for a blob that does not exist.
ReadObjEmptyIfAbsent(q) ==
  /\ pc[q] = "read"
  /\ Return(q, IF store[path[q]] = Absent THEN Empty ELSE store[path[q]])
  /\ UNCHANGED <<store, files, op, path, lpath, data, ow, buf, calls,
                 disturbed, downloaded, afterOk, opened, last>>

\* ---- read_obj: download_blob().readall(), no existence check of its own ----
ReadObj(q) ==
  /\ pc[q] = "read"
  /\ IF store[path[q]] = Absent
       THEN Raise(q, ResourceNotFoundError)
       ELSE Return(q, store[path[q]])
  /\ UNCHANGED <<store, files, op, path, lpath, data, ow, buf, calls,
                 disturbed, downloaded, afterOk, opened, last>>

\* ---- download_file ----
\* if not self.blob_exists(from_file_path): raise ResourceExistsError
DlExists(q) ==
  /\ pc[q] = "dl_exists"
  /\ IF ~blob_exists(path[q])
       THEN Raise(q, ResourceExistsError)
       ELSE Goto(q, "dl_isfile")
  /\ UNCHANGED <<store, files, op, path, lpath, data, ow, buf, calls,
                 disturbed, downloaded, afterOk, opened, last>>

\* Variant of DlIsFile without the local guard.
DlIsFileSkipped(q) ==
  /\ pc[q] = "dl_isfile"
  /\ Goto(q, "dl_open")
  /\ UNCHANGED <<store, files, op, path, lpath, data, ow, buf, calls,
                 disturbed, downloaded, afterOk, opened, last>>

\* if os.path.isfile(to_file_path): raise ValueError
DlIsFile(q) ==
  /\ pc[q] = "dl_isfile"
  /\ IF isfile(lpath[q])
       THEN Raise(q, ValueError)
       ELSE Goto(q, "dl_open")
  /\ UNCHANGED <<store, files, op, path, lpath, data, ow, buf, calls,
                 disturbed, downloaded, afterOk, opened, last>>

\* with open(to_file_path, "wb") as f: the file is created (or truncated)
\* before the blob is read.
DlOpen(q) ==
  /\ pc[q] = "dl_open"
  /\ files' = [files EXCEPT ![lpath[q]] = Empty]
  /\ opened' = [opened EXCEPT ![q] =
                  IF isfile(lpath[q]) THEN "truncated" ELSE "created"]
  /\ Goto(q, "dl_read")
  /\ UNCHANGED <<store, op, path, lpath, data, ow, buf, calls,
                 disturbed, downloaded, afterOk, last>>

\* self.get_blob_client(from_file_path).download_blob().readall(); when it
\* raises, the with block closes the file and the exception propagates.
DlRead(q) ==
  /\ pc[q] = "dl_read"
  /\ IF store[path[q]] = Absent
       THEN /\ Raise(q, ResourceNotFoundError)
            /\ buf' = buf
       ELSE /\ Goto(q, "dl_write")
            /\ buf' = [buf EXCEPT ![q] = store[path[q]]]
  /\ UNCHANGED <<store, files, op, path, lpath, data, ow, calls,
                 disturbed, downloaded, afterOk, opened, last>>

\* f.write(...), the file is closed, return True
DlWrite(q) ==
  /\ pc[q] = "dl_write"
  /\ files' = [files EXCEPT ![lpath[q]] = buf[q]]
  /\ downloaded' = downloaded \cup {lpath[q]}
  /\ Return(q, "True")
  /\ UNCHANGED <<store, op, path, lpath, data, ow, buf, calls,
                 disturbed, afterOk, opened, last>>

\* Variant of SaveCheck without the guard: every call goes on to upload.
SaveCheckNoGuard(q) ==
  /\ pc[q] = "save_check"
  /\ Goto(q, "save_upload")
  /\ UNCHANGED <<store, files, op, path, lpath, data, ow, buf, calls,
                 disturbed, downloaded, afterOk, opened, last>>

\* Variant of SaveCheck that checks existence whatever overwrite says.
SaveCheckIgnoresOverwrite(q) ==
  /\ pc[q] = "save_check"
  /\ IF blob_exists(path[q])
       THEN Raise(q, ResourceExistsError)
       ELSE Goto(q, "save_upload")
  /\ UNCHANGED <<store, files, op, path, lpath, data, ow, buf, calls,
                 disturbed, downloaded, afterOk, opened, last>>

\* ---- save_obj ----
\* if not overwrite and self.blob_exists(file_path): raise ResourceExistsError
SaveCheck(q) ==
  /\ pc[q] = "save_check"
  /\ IF ~ow[q] /\ blob_exists(path[q])
       THEN Raise(q, ResourceExistsError)
       ELSE Goto(q, "save_upload")
  /\ UNCHANGED <<store, files, op, path, lpath, data, ow, buf, calls,
                 disturbed, downloaded, afterOk, opened, last>>

\* Variant of SaveUpload with a conditional write, upload_blob(overwrite=False):
\* the storage layer refuses to replace an existing blob.
SaveUploadIfAbsent(q) ==
  /\ pc[q] = "save_upload"
  /\ IF blob_exists(path[q])
       THEN /\ Raise(q, ResourceExistsError)
            /\ UNCHANGED <<store, last, disturbed>>
       ELSE /\ store' = [store EXCEPT ![path[q]] = data[q]]
            /\ last' = [last EXCEPT ![path[q]] =
                          [kind |-> "upload", d |-> data[q], ow |-> ow[q],
                           prev |-> store[path[q]]]]
            /\ Disturb(q, path[q])
            /\ Return(q, "BlobClient")
  /\ UNCHANGED <<files, op, path, lpath, data, ow, buf, calls,
                 downloaded, afterOk, opened>>

\* self.get_container_client().upload_blob(name, data, overwrite=True)
SaveUpload(q) ==
  /\ pc[q] = "save_upload"
  /\ store' = [store EXCEPT ![path[q]] = data[q]]
  /\ last' = [last EXCEPT ![path[q]] =
                [kind |-> "upload", d |-> data[q], ow |-> ow[q],
                 prev |-> store[path[q]]]]
  /\ Disturb(q, path[q])
  /\ Return(q, "BlobClient")
  /\ UNCHANGED <<files, op, path, lpath, data, ow, buf, calls,
                 downloaded, afterOk, opened>>

\* Variant of DelBlob with delete_snapshots="only": the snapshots go, the
\* blob stays.
DelBlobSnapshotsOnly(q) ==
  /\ pc[q] = "del_blob"
  /\ IF store[path[q]] = Absent
       THEN Raise(q, ResourceNotFoundError)
       ELSE Goto(q, "del_check")
  /\ UNCHANGED <<store, files, op, path, lpath, data, ow, buf, calls,
                 disturbed, downloaded, afterOk, opened, last>>

\* ---- delete_obj ----
\* self.get_blob_client(file_path).delete_blob(delete_snapshots="include")
DelBlob(q) ==
  /\ pc[q] = "del_blob"
  /\ IF store[path[q]] = Absent
       THEN /\ Raise(q, ResourceNotFoundError)
            /\ UNCHANGED <<store, last, disturbed>>
       ELSE /\ store' = [store EXCEPT ![path[q]] = Absent]
            /\ last' = [last EXCEPT ![path[q]] =
                          [kind |-> "delete", d |-> NoArg, ow |-> FALSE,
                           prev |-> store[path[q]]]]
            /\ Disturb(q, path[q])
            /\ Goto(q, "del_check")
  /\ UNCHANGED <<files, op, path, lpath, data, ow, buf, calls,
                 downloaded, afterOk, opened>>

\* Variant of DelCheck that reports the delete step instead of the check.
DelCheckReportsDelete(q) ==
  /\ pc[q] = "del_check"
  /\ Return(q, "True")
  /\ UNCHANGED <<store, files, op, path, lpath, data, ow, buf, calls,
                 disturbed, downloaded, afterOk, opened, last>>

\* if self.blob_exists(file_path): return False  else: return True
DelCheck(q) ==
  /\ pc[q] = "del_check"
  /\ Return(q, IF blob_exists(path[q]) THEN "False" ELSE "True")
  /\ UNCHANGED <<store, files, op, path, lpath, data, ow, buf, calls,
                 disturbed, downloaded, afterOk, opened, last>>

Next ==
  \E q \in Callers :
    \/ Invoke(q)
    \/ BlobExists(q)
    \/ ReadObj(q)
    \/ DlExists(q)
    \/ DlIsFile(q)
    \/ DlOpen(q)
    \/ DlRead(q)
    \/ DlWrite(q)
    \/ SaveCheck(q)
    \/ SaveUpload(q)
    \/ DelBlob(q)
    \/ DelCheck(q)

Spec == Init /\ [][Next]_vars

TypeOK ==
  /\ store \in [Paths -> Content \cup {Absent}]
  /\ files \in [LocalPaths -> Content \cup {Absent}]
  /\ calls \in 0..MaxCalls
  /\ \A q \in Callers : exc[q] = NoExc \/ ret[q] = NoArg

\* ======================= the claims =======================

\* Caller q takes the step it is waiting at, label.
Steps(q, label) == pc[q] = label /\ pc'[q] # label

\* C1: a save_obj call with overwrite=False whose existence check finds a blob
\* at its path ends there with the AlreadyExists error (ResourceExistsError),
\* never reaches the upload, and leaves every blob of the store as it was.
C1_GuardRefuses ==
  [][\A q \in Callers :
       (Steps(q, "save_check") /\ ~ow[q] /\ blob_exists(path[q]))
         => /\ pc'[q] = "done"
            /\ exc'[q] = AlreadyExists
            /\ ret'[q] = NoArg
            /\ store' = store]_vars

\* C1 witness: a save_obj call without overwrite was refused and the blob at
\* its path still holds content other than the refused payload.
C1_Witness ==
  \E q \in Callers :
    /\ op[q] = "save_obj" /\ pc[q] = "done" /\ ~ow[q]
    /\ exc[q] = AlreadyExists
    /\ store[path[q]] \in Data /\ store[path[q]] # data[q]

\* C2: save_obj with overwrite=True is never stopped by the existence check,
\* its upload succeeds and puts its payload at the path; and a read_obj of a
\* path whose last write was such an upload returns exactly that payload.
C2_OverwriteThenRead ==
  [][\A q \in Callers :
       /\ (Steps(q, "save_check") /\ ow[q]) => pc'[q] = "save_upload"
       /\ (Steps(q, "save_upload") /\ ow[q])
            => /\ pc'[q] = "done" /\ exc'[q] = NoExc /\ ret'[q] = "BlobClient"
               /\ store'[path[q]] = data[q]
       /\ (Steps(q, "read") /\ last[path[q]].kind = "upload" /\ last[path[q]].ow)
            => /\ exc'[q] = NoExc
               /\ ret'[q] = last[path[q]].d]_vars

\* C2 witness: a blob holding one payload was replaced by an overwrite=True
\* save of another payload, and a read_obj then returned the new payload.
C2_Witness ==
  \E q \in Callers :
    /\ op[q] = "read_obj" /\ pc[q] = "done" /\ exc[q] = NoExc
    /\ last[path[q]].kind = "upload" /\ last[path[q]].ow
    /\ last[path[q]].prev \in Data /\ last[path[q]].prev # last[path[q]].d
    /\ ret[q] = last[path[q]].d

\* C3 as stated: a download_file call made after a download_file to the same
\* local path has returned True always fails with ValueError (the
\* LocalAlreadyExists kind).
C3_AlwaysLocalAlreadyExists ==
  \A q \in Callers :
    (op[q] = "download_file" /\ afterOk[q] /\ pc[q] = "done")
      => exc[q] = ValueError

\* C3 amended: such a call always fails and never opens the local file; it
\* fails at the remote check with ResourceExistsError when the blob is
\* missing there, and with ValueError at the local check otherwise.
C3_SecondDownloadFails ==
  \A q \in Callers :
    (op[q] = "download_file" /\ afterOk[q])
      => /\ pc[q] \in {"dl_exists", "dl_isfile", "done"}
         /\ opened[q] = "no"
         /\ isfile(lpath[q])
         /\ pc[q] = "done" => /\ ret[q] = NoArg
                              /\ exc[q] \in {ValueError, ResourceExistsError}

\* C3 witness: a second download to a local path already downloaded to was
\* refused with ValueError and the file still holds the downloaded content.
C3_Witness ==
  \E q \in Callers :
    /\ op[q] = "download_file" /\ afterOk[q] /\ pc[q] = "done"
    /\ exc[q] = ValueError
    /\ files[lpath[q]] \in Data

\* C4 as stated: a finished download_file call either returned True having
\* newly created the local file, or failed having neither created nor
\* truncated a file at the local path.
C4_FileOrNothing ==
  \A q \in Callers :
    (op[q] = "download_file" /\ pc[q] = "done")
      => \/ ret[q] = "True" /\ exc[q] = NoExc /\ opened[q] = "created"
         \/ exc[q] # NoExc /\ opened[q] = "no"

\* C5 as stated: a download_file call whose remote check finds no blob ends
\* there with an error of a kind other than AlreadyExists and leaves the
\* local files as they were, whether or not the local file exists.
C5_RemoteNotFoundKind ==
  [][\A q \in Callers :
       (Steps(q, "dl_exists") /\ ~blob_exists(path[q]))
         => /\ pc'[q] = "done"
            /\ exc'[q] \notin {NoExc, AlreadyExists}
            /\ files' = files]_vars

\* C6: delete_obj on a path that holds a blob removes that blob and no
\* other; when no other caller writes or deletes the path afterwards, the
\* call returns True and the blob does not exist.
C6_DeleteExisting ==
  [][\A q \in Callers :
       /\ (Steps(q, "del_blob") /\ blob_exists(path[q]))
            => /\ pc'[q] = "del_check" /\ exc'[q] = NoExc
               /\ store' = [store EXCEPT ![path[q]] = Absent]
       /\ (op'[q] = "delete_obj" /\ pc'[q] = "del_check" /\ ~disturbed'[q])
            => store'[path'[q]] = Absent
       /\ (op'[q] = "delete_obj" /\ pc'[q] = "done" /\ exc'[q] = NoExc
           /\ ~disturbed'[q])
            => ret'[q] = "True" /\ store'[path'[q]] = Absent]_vars

\* C6 witness: an undisturbed delete_obj returned True, its blob is gone and
\* the blob at another path is still there.
C6_Witness ==
  \E q \in Callers :
    /\ op[q] = "delete_obj" /\ pc[q] = "done" /\ ~disturbed[q]
    /\ ret[q] = "True"
    /\ last[path[q]].kind = "delete"
    /\ ~blob_exists(path[q])
    /\ \E p \in Paths : p # path[q] /\ blob_exists(p)

\* C7 as stated: delete_obj on a path that holds no blob does not raise at
\* the delete step, goes on to the check, and returns True when the blob is
\* absent there.
C7_DeleteAbsentReturnsTrue ==
  [][\A q \in Callers :
       /\ (Steps(q, "del_blob") /\ ~blob_exists(path[q]))
            => pc'[q] = "del_check" /\ exc'[q] = NoExc
       /\ (Steps(q, "del_check") /\ ~blob_exists(path[q]))
            => ret'[q] = "True"]_vars

\* C8: the upload of save_obj is unconditional: a call that passed its guard
\* writes its payload and succeeds whatever the store holds by then, so of
\* two overwrite=False calls that both passed the guard the later write wins.
C8_UploadUnconditional ==
  [][\A q \in Callers :
       Steps(q, "save_upload")
         => /\ pc'[q] = "done" /\ exc'[q] = NoExc /\ ret'[q] = "BlobClient"
            /\ store' = [store EXCEPT ![path[q]] = data[q]]]_vars

\* C8 witness: the only two calls made are overwrite=False saves of different
\* payloads to one path; both succeeded, and the store holds one of them.
C8_Witness ==
  /\ calls = 2
  /\ \A q \in Callers :
       /\ op[q] = "save_obj" /\ pc[q] = "done" /\ ~ow[q]
       /\ exc[q] = NoExc /\ ret[q] = "BlobClient"
  /\ path[1] = path[2]
  /\ data[1] # data[2]
  /\ last[path[1]].prev = data[1]
  /\ store[path[1]] = data[2]

\* C9: the value delete_obj returns is the negation of blob_exists at its
\* post-deletion check, whatever the delete step did.
C9_ReturnIsPostCheck ==
  [][\A q \in Callers :
       Steps(q, "del_check")
         => /\ pc'[q] = "done" /\ exc'[q] = NoExc
            /\ ret'[q] = (IF blob_exists(path[q]) THEN "False" ELSE "True")
            /\ store' = store]_vars

\* C9 witness: a delete_obj whose delete step removed the blob returned False
\* because another caller uploaded to the path before the check.
C9_Witness ==
  \E q \in Callers :
    /\ op[q] = "delete_obj" /\ pc[q] = "done" /\ exc[q] = NoExc
    /\ ret[q] = "False"
    /\ disturbed[q]
    /\ last[path[q]].kind = "upload"

====
